---- MODULE Spec2Model ----
(***************************************************************************)
(* Model of handler.py: the Lambda handler generate_pdf, which decodes an  *)
(* event, renders html to /tmp/<key> with wkhtmltopdf, uploads the file to *)
(* an S3 bucket and returns the object's URL.                              *)
(*                                                                         *)
(* Strings are sequences of characters (a TLA+ string stands for one       *)
(* character or for one indivisible literal chunk), so that str.format is  *)
(* a real concatenation.  A request body is a sequence of JSON tokens and  *)
(* json.loads is a parser over it.                                         *)
(***************************************************************************)
EXTENDS Integers, Sequences, FiniteSets, TLC

\* Number of invocations of the handler in one run.
MaxInv == 2
\* Number of execution environments (each with its own /tmp, one invocation
\* at a time).
NumEnv == 2

Inv == 1..MaxInv
Env == 1..NumEnv

----------------------------------------------------------------------------
\* Python values that the handler touches: str, int, None, list, dict.
\* t is the type, s the characters of a str (or the digits of an int),
\* o the items of a dict.

EmptyDict == [k \in {} |-> 0]

PyStr(s) == [t |-> "str", s |-> s, o |-> EmptyDict]
PyInt(s) == [t |-> "int", s |-> s, o |-> EmptyDict]
PyNone == [t |-> "None", s |-> <<>>, o |-> EmptyDict]
PyList == [t |-> "list", s |-> <<>>, o |-> EmptyDict]
PyDict(o) == [t |-> "dict", s |-> <<>>, o |-> o]

\* '{}'.format(v): str(v) of the value.
Format(v) ==
    CASE v.t = "str" -> v.s
      [] v.t = "int" -> v.s
      [] v.t = "None" -> <<"None">>
      [] v.t = "list" -> <<"[]">>
      [] OTHER -> <<"{...}">>

----------------------------------------------------------------------------
\* JSON tokens of a request body.
Tok(t) == [t |-> t, v |-> <<>>]
TStr(s) == [t |-> "str", v |-> s]
TNum(s) == [t |-> "num", v |-> s]
LBrace == Tok("{")
RBrace == Tok("}")
Colon == Tok(":")
Comma == Tok(",")
LBrack == Tok("[")
RBrack == Tok("]")
TNull == Tok("null")

IsScalarTok(tok) == tok.t \in {"str", "num", "null"}

ScalarOf(tok) ==
    CASE tok.t = "str" -> PyStr(tok.v)
      [] tok.t = "num" -> PyInt(tok.v)
      [] OTHER -> PyNone

\* dict[k] = v: a later pair with the same name replaces the earlier one.
DictSet(o, k, v) == [x \in (DOMAIN o) \cup {k} |-> IF x = k THEN v ELSE o[x]]

JsonError == [ok |-> FALSE, val |-> PyNone]
JsonOk(v) == [ok |-> TRUE, val |-> v]

\* The members of an object, toks[i] being the first token of a pair.
RECURSIVE ParsePairs(_, _, _)
ParsePairs(toks, i, acc) ==
    IF i + 3 > Len(toks) THEN JsonError
    ELSE IF toks[i].t # "str" \/ toks[i + 1].t # ":" \/ ~IsScalarTok(toks[i + 2])
    THEN JsonError
    ELSE LET acc2 == DictSet(acc, toks[i].v, ScalarOf(toks[i + 2])) IN
         IF toks[i + 3].t = "}"
         THEN IF i + 3 = Len(toks) THEN JsonOk(PyDict(acc2)) ELSE JsonError
         ELSE IF toks[i + 3].t = ","
         THEN ParsePairs(toks, i + 4, acc2)
         ELSE JsonError

\* json.loads on the text of a body: one JSON value and nothing after it.
JsonLoads(toks) ==
    IF Len(toks) = 0 THEN JsonError
    ELSE IF IsScalarTok(toks[1])
    THEN IF Len(toks) = 1 THEN JsonOk(ScalarOf(toks[1])) ELSE JsonError
    ELSE IF toks[1].t = "["
    THEN IF Len(toks) = 2 /\ toks[2].t = "]" THEN JsonOk(PyList) ELSE JsonError
    ELSE IF toks[1].t = "{"
    THEN IF Len(toks) = 2 /\ toks[2].t = "}" THEN JsonOk(PyDict(EmptyDict))
         ELSE ParsePairs(toks, 2, EmptyDict)
    ELSE JsonError

----------------------------------------------------------------------------
\* Variant: the default key with its spelling corrected.
DefaultKeyCorrected == PyStr(<<"default-filename.pdf">>)

\* Literals of the handler.
DefaultKey == PyStr(<<"deafult-filename.pdf">>)
DefaultHtml == PyStr(<<"<h1>It works! This is the default PDF.</h1>">>)
FILENAME == <<"filename">>
HTML == <<"html">>

\* Events the handler is invoked with.  hasBody: 'body' in event;
\* bodyIsStr: event['body'] is a str (API Gateway sends null for an empty
\* body); body: its JSON tokens.
NoBodyEvent == [hasBody |-> FALSE, bodyIsStr |-> FALSE, body |-> <<>>]
NullBodyEvent == [hasBody |-> TRUE, bodyIsStr |-> FALSE, body |-> <<>>]
BodyEvent(toks) == [hasBody |-> TRUE, bodyIsStr |-> TRUE, body |-> toks]

Report == <<"report", ".pdf">>
Unsafe == <<"..", "/", "x">>
HtmlHi == <<"<p>", "Hi", "</p>">>
HtmlYo == <<"<p>", "Yo", "</p>">>

Request(fname, h) ==
    BodyEvent(<<LBrace, TStr(FILENAME), Colon, fname, Comma,
                TStr(HTML), Colon, h, RBrace>>)

Events ==
    { NoBodyEvent,
      NullBodyEvent,
      Request(TStr(Report), TStr(HtmlHi)),
      Request(TStr(Report), TStr(HtmlYo)),
      Request(TStr(Unsafe), TStr(HtmlHi)),
      Request(TStr(DefaultKey.s), TStr(HtmlYo)),
      \* {"filename": "report.pdf"}
      BodyEvent(<<LBrace, TStr(FILENAME), Colon, TStr(Report), RBrace>>),
      \* {"html": "<p>Hi</p>"}
      BodyEvent(<<LBrace, TStr(HTML), Colon, TStr(HtmlHi), RBrace>>),
      \* []
      BodyEvent(<<LBrack, RBrack>>),
      \* {"filename": "report.pdf", "html":
      BodyEvent(<<LBrace, TStr(FILENAME), Colon, TStr(Report), Comma,
                  TStr(HTML), Colon>>) }

\* os.environ.get('S3_BUCKET_NAME'): the configured name, or None.
BucketNames == { PyNone, PyStr(<<"my-bucket">>) }

----------------------------------------------------------------------------
\* data[name]
Subscript(data, name) ==
    IF data.t # "dict" THEN [err |-> "TypeError", val |-> PyNone]
    ELSE IF name \notin DOMAIN data.o THEN [err |-> "KeyError", val |-> PyNone]
    ELSE [err |-> "none", val |-> data.o[name]]

\* '/tmp/{key}'.format(key=key)
FilePath(k) == <<"/tmp/">> \o Format(k)

Resolved(e, k, h) == [err |-> e, key |-> k, html |-> h, filepath |-> FilePath(k)]

\* Variant: data.get(name, default) in place of data[name].
ResolveWithDefaults(ev) ==
    IF ~ev.hasBody THEN Resolved("none", DefaultKey, DefaultHtml)
    ELSE IF ~ev.bodyIsStr THEN Resolved("TypeError", DefaultKey, DefaultHtml)
    ELSE LET parsed == JsonLoads(ev.body) IN
         IF ~parsed.ok THEN Resolved("JSONDecodeError", DefaultKey, DefaultHtml)
         ELSE LET f == Subscript(parsed.val, FILENAME)
                  h == Subscript(parsed.val, HTML) IN
              IF "TypeError" \in {f.err, h.err}
              THEN Resolved("TypeError", DefaultKey, DefaultHtml)
              ELSE Resolved("none",
                            IF f.err = "none" THEN f.val ELSE DefaultKey,
                            IF h.err = "none" THEN h.val ELSE DefaultHtml)

\* Lines 13-28: the defaults, then the body's values when the event has one.
Resolve(ev) ==
    IF ~ev.hasBody THEN Resolved("none", DefaultKey, DefaultHtml)
    ELSE IF ~ev.bodyIsStr THEN Resolved("TypeError", DefaultKey, DefaultHtml)
    ELSE LET parsed == JsonLoads(ev.body) IN
         IF ~parsed.ok THEN Resolved("JSONDecodeError", DefaultKey, DefaultHtml)
         ELSE LET f == Subscript(parsed.val, FILENAME)
                  h == Subscript(parsed.val, HTML) IN
              IF f.err # "none" THEN Resolved(f.err, DefaultKey, DefaultHtml)
              ELSE IF h.err # "none" THEN Resolved(h.err, f.val, DefaultHtml)
              ELSE Resolved("none", f.val, h.val)

\* What wkhtmltopdf writes for one run: the rendering of html made by
\* invocation i (two runs never produce the same bytes: the PDF carries its
\* creation date); complete is FALSE for what a failed run leaves behind.
Rendering(i, h, complete) == [by |-> i, html |-> h, complete |-> complete]

\* Variant: a renderer that keeps a file that is already there.
WriteFileIfAbsent(fs, path, content) ==
    IF path \in DOMAIN fs THEN fs ELSE DictSet(fs, path, content)

\* The renderer writes its output at path, replacing what is there.
WriteFile(fs, path, content) == DictSet(fs, path, content)

\* Variant: no ACL argument, so the object gets the bucket's default.
PutObjectArgsNoAcl(bucket, k, body) ==
    [ACL |-> "private", Body |-> body, ContentType |-> "application/pdf",
     Bucket |-> bucket, Key |-> k]

\* Variant: the content type taken from the key's extension.
PutObjectArgsGuessType(bucket, k, body) ==
    [ACL |-> "public-read", Body |-> body,
     ContentType |-> IF Len(Format(k)) > 0 /\ Format(k)[Len(Format(k))] = ".pdf"
                     THEN "application/pdf" ELSE "binary/octet-stream",
     Bucket |-> bucket, Key |-> k]

\* The keyword arguments of client.put_object.
PutObjectArgs(bucket, k, body) ==
    [ACL |-> "public-read", Body |-> body, ContentType |-> "application/pdf",
     Bucket |-> bucket, Key |-> k]

\* botocore validates the parameters before it sends anything.
ValidPut(args) == args.Bucket.t = "str" /\ args.Key.t = "str"

\* Variant: a conditional write that keeps an existing object.
S3PutIfAbsent(s, args) ==
    IF args.Key.s \in DOMAIN s THEN s
    ELSE DictSet(s, args.Key.s,
                 [Body |-> args.Body, ACL |-> args.ACL, ContentType |-> args.ContentType])

\* S3 PutObject: the object under the key is replaced.
S3Put(s, args) ==
    DictSet(s, args.Key.s,
            [Body |-> args.Body, ACL |-> args.ACL, ContentType |-> args.ContentType])

\* Variant: the path-style URL.
ObjectUrlPathStyle(bucket, k) ==
    <<"https://s3.amazonaws.com/">> \o Format(bucket) \o <<"/">> \o Format(k)

\* "https://{0}.s3.amazonaws.com/{1}".format(S3_BUCKET_NAME, key)
ObjectUrl(bucket, k) ==
    <<"https://">> \o Format(bucket) \o <<".s3.amazonaws.com/">> \o Format(k)

MakeResponse(url) ==
    [headers |-> [AccessControlAllowOrigin |-> "*",
                  AccessControlAllowCredentials |-> TRUE],
     statusCode |-> 200,
     body |-> url]

\* Variant: the exception is swallowed and the handler goes on.
AfterSwallow(ok, next) == next

\* Where control goes after a step: on, or out of the handler with the
\* exception (nothing in the handler catches one).
After(ok, next) == IF ok THEN next ELSE "failed"

----------------------------------------------------------------------------
VARIABLES
    S3_BUCKET_NAME, \* module global, read once at import
    pc,             \* per invocation: idle, render, upload, respond, done, failed
    event,          \* per invocation: the event it was invoked with
    envOf,          \* per invocation: the execution environment it runs in
    key, html, filepath, \* per invocation: the handler's locals
    err,            \* per invocation: the exception that ended it, or "none"
    response,       \* per invocation: <<>> or <<the returned response>>
    tmp,            \* per environment: path -> file content
    store,          \* the bucket: key -> object
    trace,          \* per invocation: the calls it made, in order, each
                    \* with whether it returned (ok) or raised
    putLog          \* the put_object calls made, in order

vars == <<S3_BUCKET_NAME, pc, event, envOf, key, html, filepath, err, response,
          tmp, store, trace, putLog>>

Call(op, ok) == [op |-> op, ok |-> ok]

Active(i) == pc[i] \in {"render", "upload", "respond"}

Init ==
    /\ S3_BUCKET_NAME \in BucketNames
    /\ pc = [i \in Inv |-> "idle"]
    /\ event = [i \in Inv |-> NoBodyEvent]
    /\ envOf = [i \in Inv |-> 1]
    /\ key = [i \in Inv |-> DefaultKey]
    /\ html = [i \in Inv |-> DefaultHtml]
    /\ filepath = [i \in Inv |-> FilePath(DefaultKey)]
    /\ err = [i \in Inv |-> "none"]
    /\ response = [i \in Inv |-> <<>>]
    /\ tmp = [e \in Env |-> EmptyDict]
    /\ store = EmptyDict
    /\ trace = [i \in Inv |-> <<>>]
    /\ putLog = <<>>

\* Environment e has run an invocation.
Warm(e) == \E j \in Inv : pc[j] # "idle" /\ envOf[j] = e

\* Lines 10-28: invocation i starts in environment e, which runs one
\* invocation at a time, and resolves key, html and filepath.  Invocations
\* are numbered in the order they start and environments in the order they
\* are first used.
Invoke(i, e, ev) ==
    /\ pc[i] = "idle"
    /\ \A j \in Inv : j < i => pc[j] # "idle"
    /\ \A j \in Inv : Active(j) => envOf[j] # e
    /\ e = 1 \/ Warm(e - 1)
    /\ LET r == Resolve(ev) IN
       /\ event' = [event EXCEPT ![i] = ev]
       /\ envOf' = [envOf EXCEPT ![i] = e]
       /\ key' = [key EXCEPT ![i] = r.key]
       /\ html' = [html EXCEPT ![i] = r.html]
       /\ filepath' = [filepath EXCEPT ![i] = r.filepath]
       /\ err' = [err EXCEPT ![i] = r.err]
       /\ trace' = [trace EXCEPT ![i] =
                       IF ev.hasBody THEN <<Call("decode", r.err = "none")>> ELSE <<>>]
       /\ pc' = [pc EXCEPT ![i] = After(r.err = "none", "render")]
    /\ UNCHANGED <<S3_BUCKET_NAME, response, tmp, store, putLog>>

\* Lines 31-32: pdfkit.from_string(html, filepath) returns.
RenderOk(i) ==
    /\ pc[i] = "render"
    /\ html[i].t = "str"
    /\ trace' = [trace EXCEPT ![i] = Append(@, Call("render", TRUE))]
    /\ tmp' = [tmp EXCEPT ![envOf[i]] =
                  WriteFile(@, filepath[i], Rendering(i, html[i].s, TRUE))]
    /\ pc' = [pc EXCEPT ![i] = After(TRUE, "upload")]
    /\ UNCHANGED <<S3_BUCKET_NAME, event, envOf, key, html, filepath, err,
                   response, store, putLog>>

\* Variant: the failed render is ignored and the upload goes ahead.
RenderFailIgnored(i) ==
    /\ pc[i] = "render"
    /\ trace' = [trace EXCEPT ![i] = Append(@, Call("render", FALSE))]
    /\ tmp' = IF html[i].t = "str"
              THEN [tmp EXCEPT ![envOf[i]] =
                       WriteFile(@, filepath[i], Rendering(i, html[i].s, FALSE))]
              ELSE tmp
    /\ pc' = [pc EXCEPT ![i] = "upload"]
    /\ UNCHANGED <<S3_BUCKET_NAME, event, envOf, key, html, filepath, err,
                   response, store, putLog>>

\* Variant: a failed render is tried once more.
RenderFailRetry(i) ==
    /\ pc[i] = "render"
    /\ trace' = [trace EXCEPT ![i] = Append(@, Call("render", FALSE))]
    /\ pc' = [pc EXCEPT ![i] = IF Len(trace[i]) < 2 THEN "render" ELSE "failed"]
    /\ err' = [err EXCEPT ![i] = "IOError"]
    /\ UNCHANGED <<S3_BUCKET_NAME, event, envOf, key, html, filepath,
                   response, tmp, store, putLog>>

\* Lines 31-32: pdfkit.from_string raises (binary missing, wkhtmltopdf
\* error, html that is no str); the run may leave a partial file.
RenderFail(i) ==
    /\ pc[i] = "render"
    /\ trace' = [trace EXCEPT ![i] = Append(@, Call("render", FALSE))]
    /\ \E partial \in BOOLEAN :
          tmp' = IF partial /\ html[i].t = "str"
                 THEN [tmp EXCEPT ![envOf[i]] =
                          WriteFile(@, filepath[i], Rendering(i, html[i].s, FALSE))]
                 ELSE tmp
    /\ err' = [err EXCEPT ![i] = IF html[i].t = "str" THEN "IOError" ELSE "TypeError"]
    /\ pc' = [pc EXCEPT ![i] = After(FALSE, "upload")]
    /\ UNCHANGED <<S3_BUCKET_NAME, event, envOf, key, html, filepath,
                   response, store, putLog>>

\* Lines 36-42: open(filepath, 'rb') and client.put_object(...) returns.
UploadOk(i) ==
    /\ pc[i] = "upload"
    /\ filepath[i] \in DOMAIN tmp[envOf[i]]
    /\ LET args == PutObjectArgs(S3_BUCKET_NAME, key[i], tmp[envOf[i]][filepath[i]]) IN
       /\ ValidPut(args)
       /\ store' = S3Put(store, args)
       /\ putLog' = Append(putLog, [inv |-> i, args |-> args, committed |-> TRUE])
    /\ trace' = [trace EXCEPT ![i] = @ \o <<Call("open", TRUE), Call("put_object", TRUE)>>]
    /\ pc' = [pc EXCEPT ![i] = After(TRUE, "respond")]
    /\ UNCHANGED <<S3_BUCKET_NAME, event, envOf, key, html, filepath, err,
                   response, tmp>>

\* Lines 36-42: open(filepath, 'rb') raises (no such file), or
\* client.put_object raises: the parameters are rejected, the service
\* refuses, or the connection is lost (possibly after the service has stored
\* the object).
UploadFail(i) ==
    /\ pc[i] = "upload"
    /\ IF filepath[i] \notin DOMAIN tmp[envOf[i]]
       THEN /\ trace' = [trace EXCEPT ![i] = Append(@, Call("open", FALSE))]
            /\ err' = [err EXCEPT ![i] = "FileNotFoundError"]
            /\ UNCHANGED <<store, putLog>>
       ELSE LET args == PutObjectArgs(S3_BUCKET_NAME, key[i],
                                      tmp[envOf[i]][filepath[i]]) IN
            \E committed \in BOOLEAN :
               /\ committed => ValidPut(args)
               /\ store' = IF committed THEN S3Put(store, args) ELSE store
               /\ putLog' = Append(putLog, [inv |-> i, args |-> args,
                                            committed |-> committed])
               /\ err' = [err EXCEPT ![i] =
                             IF ValidPut(args) THEN "ClientError"
                             ELSE "ParamValidationError"]
               /\ trace' = [trace EXCEPT ![i] =
                               @ \o <<Call("open", TRUE), Call("put_object", FALSE)>>]
    /\ pc' = [pc EXCEPT ![i] = After(FALSE, "respond")]
    /\ UNCHANGED <<S3_BUCKET_NAME, event, envOf, key, html, filepath,
                   response, tmp>>

\* Lines 45-57: the URL and the response.
Respond(i) ==
    /\ pc[i] = "respond"
    /\ response' = [response EXCEPT ![i] =
                       <<MakeResponse(ObjectUrl(S3_BUCKET_NAME, key[i]))>>]
    /\ trace' = [trace EXCEPT ![i] = Append(@, Call("respond", TRUE))]
    /\ pc' = [pc EXCEPT ![i] = After(TRUE, "done")]
    /\ UNCHANGED <<S3_BUCKET_NAME, event, envOf, key, html, filepath, err,
                   tmp, store, putLog>>

Next ==
    \/ \E i \in Inv, e \in Env, ev \in Events : Invoke(i, e, ev)
    \/ \E i \in Inv : RenderOk(i)
    \/ \E i \in Inv : RenderFail(i)
    \/ \E i \in Inv : UploadOk(i)
    \/ \E i \in Inv : UploadFail(i)
    \/ \E i \in Inv : Respond(i)

Spec == Init /\ [][Next]_vars

----------------------------------------------------------------------------
\* Vocabulary of the properties.

Started(i) == pc[i] # "idle"
Returned(i) == response[i] # <<>>

\* The positions in putLog of the put_object calls invocation i made.
PutsOf(i) == { n \in DOMAIN putLog : putLog[n].inv = i }

\* The number of calls of op in invocation i's trace.
Calls(i, op) == Cardinality({ n \in DOMAIN trace[i] : trace[i][n].op = op })

\* Invocation i made the call op and it returned.
Succeeded(i, op) == \E n \in DOMAIN trace[i] : trace[i][n] = Call(op, TRUE)

\* Invocation i made the call op and it raised.
Raised(i, op) == \E n \in DOMAIN trace[i] : trace[i][n] = Call(op, FALSE)

\* The positions in putLog of the stored writes under key k.
Writes(k) == { n \in DOMAIN putLog :
                  /\ putLog[n].committed
                  /\ putLog[n].args.Key = PyStr(k) }

Last(S) == CHOOSE n \in S : \A m \in S : m <= n

\* The value the body of event ev decodes to (None when it does not).
Decoded(ev) ==
    IF ev.hasBody /\ ev.bodyIsStr /\ JsonLoads(ev.body).ok
    THEN JsonLoads(ev.body).val
    ELSE PyNone

Fields(ev) == Decoded(ev).o

\* The body of ev decodes to an object with string fields filename and html.
ValidRequest(ev) ==
    LET d == Decoded(ev) IN
    /\ d.t = "dict"
    /\ {FILENAME, HTML} \subseteq DOMAIN d.o
    /\ d.o[FILENAME].t = "str"
    /\ d.o[HTML].t = "str"

\* The body of ev decodes to an object lacking filename or html.
LacksField(ev) ==
    LET d == Decoded(ev) IN
    /\ d.t = "dict"
    /\ ~({FILENAME, HTML} \subseteq DOMAIN d.o)

\* The order of the calls of one invocation.
StepOrder == <<"decode", "render", "open", "put_object", "respond">>
Rank(op) == CHOOSE n \in DOMAIN StepOrder : StepOrder[n] = op

----------------------------------------------------------------------------
\* C1: for every event whose body decodes to an object with string fields
\* filename and html, once render and upload have succeeded the handler
\* returns statusCode 200 and the body "https://" + S3_BUCKET_NAME +
\* ".s3.amazonaws.com/" + filename, the filename being the request's,
\* character for character.
C1_ReturnedUrl ==
    \A i \in Inv :
        (ValidRequest(event[i]) /\ Succeeded(i, "render") /\ Succeeded(i, "put_object")
         /\ pc[i] = "done")
        => /\ Returned(i)
           /\ response[i][1].statusCode = 200
           /\ S3_BUCKET_NAME.t = "str"
           /\ response[i][1].body =
                 <<"https://">> \o S3_BUCKET_NAME.s \o <<".s3.amazonaws.com/">>
                     \o Fields(event[i])[FILENAME].s
           /\ (event[i] = Request(TStr(<<"report", ".pdf">>), TStr(HtmlHi))
               => response[i][1].body =
                     <<"https://", "my-bucket", ".s3.amazonaws.com/", "report", ".pdf">>)

\* A request whose filename holds path characters has been answered.
C1_Witness ==
    \E i \in Inv :
        /\ event[i] = Request(TStr(Unsafe), TStr(HtmlHi))
        /\ pc[i] = "done"
        /\ response[i][1].body =
              <<"https://", "my-bucket", ".s3.amazonaws.com/", "..", "/", "x">>

\* C2: an invocation whose event has no 'body' key renders the fixed default
\* html and uploads it under the key 'deafult-filename.pdf': its key, its
\* html, the file it renders and every put_object call it makes are the
\* defaults.
C2_DefaultsWithoutBody ==
    \A i \in Inv :
        (Started(i) /\ ~event[i].hasBody)
        => /\ key[i] = PyStr(<<"deafult-filename.pdf">>)
           /\ html[i] = PyStr(<<"<h1>It works! This is the default PDF.</h1>">>)
           /\ filepath[i] = <<"/tmp/", "deafult-filename.pdf">>
           /\ err[i] \notin {"TypeError", "JSONDecodeError", "KeyError"}
           /\ pc[i] \in {"upload", "respond"}
              => /\ filepath[i] \in DOMAIN tmp[envOf[i]]
                 /\ tmp[envOf[i]][filepath[i]] =
                       Rendering(i, <<"<h1>It works! This is the default PDF.</h1>">>, TRUE)
           /\ \A n \in PutsOf(i) :
                 /\ putLog[n].args.Key = PyStr(<<"deafult-filename.pdf">>)
                 /\ putLog[n].args.Body =
                       Rendering(i, <<"<h1>It works! This is the default PDF.</h1>">>, TRUE)

\* An invocation without body has returned and its rendering is what the
\* bucket holds under the default key.
C2_Witness ==
    \E i \in Inv :
        /\ ~event[i].hasBody
        /\ pc[i] = "done"
        /\ <<"deafult-filename.pdf">> \in DOMAIN store
        /\ store[<<"deafult-filename.pdf">>].Body.by = i

\* C3: an invocation whose body decodes to an object lacking 'filename' or
\* 'html' fails with the lookup error before it renders or calls
\* put_object: it makes no put_object call, so it stores nothing, under the
\* default key or under the supplied filename.
C3_MissingFieldFailsBeforeUpload ==
    \A i \in Inv :
        (Started(i) /\ LacksField(event[i]))
        => /\ pc[i] = "failed"
           /\ err[i] = "KeyError"
           /\ ~Returned(i)
           /\ PutsOf(i) = {}
           /\ Calls(i, "render") = 0
           /\ Calls(i, "put_object") = 0
           /\ \A k \in DOMAIN store : store[k].Body.by # i

\* A request with a filename and no html has failed, with the key already
\* taken from the request.
C3_Witness ==
    \E i \in Inv :
        /\ event[i] = BodyEvent(<<LBrace, TStr(FILENAME), Colon, TStr(Report), RBrace>>)
        /\ pc[i] = "failed"
        /\ key[i] = PyStr(Report)
        /\ PutsOf(i) = {}

\* C4: invocations that return with the same filename return the same URL,
\* and the object stored under a key is the body of the put_object on that
\* key that was stored last, whatever was there: in particular, of two
\* successive calls with one filename, the second call's rendering.
C4_LastWriterWins ==
    /\ \A i, j \in Inv :
          (pc[i] = "done" /\ pc[j] = "done" /\ key[i] = key[j])
          => response[i][1].body = response[j][1].body
    /\ \A k \in DOMAIN store :
          /\ Writes(k) # {}
          /\ store[k].Body = putLog[Last(Writes(k))].args.Body
    /\ \A n \in DOMAIN putLog :
          putLog[n].committed => putLog[n].args.Key.s \in DOMAIN store
    /\ \A i, j \in Inv :
          (/\ pc[i] = "done" /\ pc[j] = "done" /\ i # j /\ key[i] = key[j]
           /\ \E n \in PutsOf(i), m \in PutsOf(j) : n < m /\ m = Last(Writes(key[j].s)))
          => store[key[j].s].Body = Rendering(j, html[j].s, TRUE)

\* Two calls with one filename and different html have returned, and the
\* bucket holds the later one's rendering.
C4_Witness ==
    \E i, j \in Inv :
        /\ i < j
        /\ pc[i] = "done" /\ pc[j] = "done"
        /\ key[i] = key[j]
        /\ html[i] # html[j]
        /\ Len(putLog) = 2 /\ putLog[1].inv = i /\ putLog[2].inv = j
        /\ store[key[j].s].Body = Rendering(j, html[j].s, TRUE)
        /\ response[i] = response[j]

\* C5: a response is returned only by an invocation in which nothing raised
\* and in which the decode (when there is a body), the render and the upload
\* have all returned; an invocation in which a step raised ends failed, with
\* the exception and without response.
C5_ResponseOnlyOnSuccess ==
    \A i \in Inv :
        /\ Returned(i)
           => /\ response[i][1].statusCode = 200
              /\ pc[i] = "done"
              /\ err[i] = "none"
              /\ event[i].hasBody => Succeeded(i, "decode")
              /\ Succeeded(i, "render")
              /\ Succeeded(i, "put_object")
              /\ \A n \in DOMAIN trace[i] : trace[i][n].ok
        /\ (\E n \in DOMAIN trace[i] : ~trace[i][n].ok)
           => /\ pc[i] = "failed"
              /\ err[i] # "none"
              /\ ~Returned(i)
        /\ (Started(i) /\ event[i].hasBody /\ ~ValidRequest(event[i]))
           => ~Returned(i)

\* One invocation has failed in the upload and another in the render, both
\* without response.
C5_Witness ==
    \E i, j \in Inv :
        /\ Raised(i, "put_object") /\ pc[i] = "failed" /\ ~Returned(i)
        /\ Raised(j, "render") /\ pc[j] = "failed" /\ ~Returned(j)

\* C6: every put_object call carries ACL 'public-read', and so does every
\* stored object, for the default path and for request-supplied values.
C6_PublicRead ==
    /\ \A n \in DOMAIN putLog : putLog[n].args.ACL = "public-read"
    /\ \A k \in DOMAIN store : store[k].ACL = "public-read"

\* The default path and a request have both uploaded.
C6_Witness ==
    \E n, m \in DOMAIN putLog :
        /\ ~event[putLog[n].inv].hasBody
        /\ event[putLog[m].inv].hasBody
        /\ putLog[n].committed /\ putLog[m].committed

\* C7: every put_object call carries content type 'application/pdf',
\* whatever the html, the filename and the filename's extension.
C7_ContentTypePdf ==
    /\ \A n \in DOMAIN putLog : putLog[n].args.ContentType = "application/pdf"
    /\ \A k \in DOMAIN store : store[k].ContentType = "application/pdf"

\* A key without the .pdf extension has been uploaded.
C7_Witness ==
    \E n \in DOMAIN putLog :
        /\ putLog[n].args.Key = PyStr(Unsafe)
        /\ putLog[n].committed
        /\ Unsafe \in DOMAIN store

\* C8: the calls of one invocation are made in the order decode, render,
\* open, put_object, respond, each after the one before it has returned:
\* put_object is called only after this invocation's render has returned, an
\* invocation whose render raised makes no put_object call (it leaves the
\* bucket as it is), and the response is built only after put_object has
\* returned.
C8_StepOrder ==
    \A i \in Inv :
        /\ \A n, m \in DOMAIN trace[i] :
              n < m => /\ Rank(trace[i][n].op) < Rank(trace[i][m].op)
                       /\ trace[i][n].ok
        /\ PutsOf(i) # {} => Succeeded(i, "render") /\ Succeeded(i, "open")
        /\ Calls(i, "put_object") > 0 => Succeeded(i, "render")
        /\ Raised(i, "render")
           => /\ PutsOf(i) = {}
              /\ \A k \in DOMAIN store : store[k].Body.by # i
        /\ Returned(i) => Succeeded(i, "put_object")
        /\ Calls(i, "respond") > 0 => Succeeded(i, "put_object")

\* An invocation's render has raised after another invocation stored an
\* object under the same key, which is still there.
C8_Witness ==
    \E i, j \in Inv :
        /\ i # j
        /\ key[i] = key[j]
        /\ Raised(i, "render")
        /\ key[j].s \in DOMAIN store
        /\ store[key[j].s].Body.by = j
        /\ putLog[Len(putLog)].inv = j

\* C9: an invocation calls the renderer at most once and put_object at most
\* once; one that returns has called each exactly once; one whose render or
\* upload raised has made no further call.
C9_SingleAttempt ==
    \A i \in Inv :
        /\ Calls(i, "render") <= 1
        /\ Calls(i, "put_object") <= 1
        /\ Cardinality(PutsOf(i)) = Calls(i, "put_object")
        /\ pc[i] = "done"
           => /\ Calls(i, "render") = 1
              /\ Calls(i, "put_object") = 1
        /\ Raised(i, "render")
           => /\ trace[i][Len(trace[i])] = Call("render", FALSE)
              /\ pc[i] = "failed"
        /\ Raised(i, "put_object")
           => /\ trace[i][Len(trace[i])] = Call("put_object", FALSE)
              /\ pc[i] = "failed"

\* One invocation has stopped at a failed render, another at a failed
\* upload, each after a single call.
C9_Witness ==
    \E i, j \in Inv :
        /\ Raised(i, "render") /\ Calls(i, "render") = 1 /\ pc[i] = "failed"
        /\ Raised(j, "put_object") /\ Calls(j, "put_object") = 1 /\ pc[j] = "failed"
        /\ Calls(j, "render") = 1

\* C10: the body of every put_object call is the complete rendering, made by
\* the calling invocation, of that invocation's html (the request's html, or
\* the default), also when the environment's /tmp held a file at the same
\* path before.
C10_OwnRendering ==
    \A n \in DOMAIN putLog :
        LET i == putLog[n].inv IN
        /\ putLog[n].args.Body = Rendering(i, html[i].s, TRUE)
        /\ putLog[n].args.Key = key[i]
        /\ ValidRequest(event[i]) => putLog[n].args.Body.html = Fields(event[i])[HTML].s
        /\ ~event[i].hasBody => putLog[n].args.Body.html = DefaultHtml.s

\* An invocation has uploaded from an environment in which an earlier
\* invocation with other html had left a file at the same path.
C10_Witness ==
    \E i, j \in Inv :
        /\ i < j
        /\ envOf[i] = envOf[j]
        /\ filepath[i] = filepath[j]
        /\ html[i] # html[j]
        /\ Succeeded(i, "render")
        /\ \E n \in PutsOf(j) : putLog[n].committed

====
